---- MODULE Spec2Model ----
(***************************************************************************)
(* EncryptionCodec (src/src/temporal_encryption/codec.py): the AES-256-GCM *)
(* payload codec of the worker and the starter.                            *)
(*                                                                         *)
(* Bytes are naturals 0..255, byte strings are sequences of bytes, Python  *)
(* str values are sequences of code points.  A Payload is a record         *)
(* [metadata |-> function from str to bytes, data |-> bytes].  The result  *)
(* of a call that may raise is [ok |-> TRUE, val |-> v] or                 *)
(* [ok |-> FALSE, exc |-> e].                                              *)
(***************************************************************************)
EXTENDS Naturals, Sequences, FiniteSets

\* ------------------------------------------------------------ bounds
MaxBatch == 2
MaxWire == 2

\* ------------------------------------------------- program constants
KEY_BYTES == 32
NONCE_BYTES == 12
TAG_BYTES == 16

\* ---------------------------------------------------------- literals
\* 'binary/encrypted'
BINARY_ENCRYPTED == <<98, 105, 110, 97, 114, 121, 47, 101, 110, 99, 114, 121, 112, 116, 101, 100>>
\* 'encoding'
ENCODING == <<101, 110, 99, 111, 100, 105, 110, 103>>
\* 'encryption-key-id'
ENCRYPTION_KEY_ID == <<101, 110, 99, 114, 121, 112, 116, 105, 111, 110, 45, 107, 101, 121, 45, 105, 100>>
\* 'default-key'
DEFAULT_KEY == <<100, 101, 102, 97, 117, 108, 116, 45, 107, 101, 121>>

\* None, as a record so that it compares with the records it stands in for
None == [type |-> "NoneType"]
Ok(v) == [ok |-> TRUE, val |-> v]
Raise(e) == [ok |-> FALSE, exc |-> e]

\* The exceptions the codec's calls end in.
KeyLengthError == [type |-> "ValueError", msg |-> "Key must be 32 bytes for AES-256-GCM"]
UnknownKeyId(found, expected) == [type |-> "ValueError", msg |-> "Unknown key ID", found |-> found, expected |-> expected]
KeyNotSet == [type |-> "ValueError", msg |-> "TEMPORAL_ENCRYPTION_KEY environment variable not set"]
FromHexError == [type |-> "ValueError", msg |-> "non-hexadecimal number found in fromhex() arg"]
AesKeySizeError == [type |-> "ValueError", msg |-> "AESGCM key must be 128, 192, or 256 bits."]
NonceSizeError == [type |-> "ValueError", msg |-> "Nonce must be between 8 and 128 bytes"]
InvalidTag == [type |-> "InvalidTag"]
UnicodeDecodeError == [type |-> "UnicodeDecodeError"]
DecodeError == [type |-> "DecodeError"]

\* ------------------------------------------------------ byte strings
Min(a, b) == IF a <= b THEN a ELSE b

\* n bytes b
Bytes(n, b) == [i \in 1..n |-> b]

\* s[:n] and s[n:] of Python: never raise, clip at the end of s.
Take(s, n) == SubSeq(s, 1, Min(n, Len(s)))
Drop(s, n) == SubSeq(s, Min(n, Len(s)) + 1, Len(s))

RECURSIVE SumTo(_, _)
SumTo(s, n) == IF n = 0 THEN 0 ELSE (s[n] + SumTo(s, n - 1)) % 256
Sum(s) == SumTo(s, Len(s))

RECURSIVE Pow2(_)
Pow2(k) == IF k = 0 THEN 1 ELSE 2 * Pow2(k - 1)

\* byte b with bit k (0..7) inverted
FlipBit(b, k) == IF (b \div Pow2(k)) % 2 = 1 THEN b - Pow2(k) ELSE b + Pow2(k)

\* ------------------------------------------- str.encode / bytes.decode
\* UTF-8 of code points below 0x800 (one- and two-byte forms).
EncodeChar(c) == IF c < 128 THEN <<c>> ELSE <<192 + (c \div 64), 128 + (c % 64)>>

RECURSIVE str_encode(_)
str_encode(s) == IF s = <<>> THEN <<>> ELSE EncodeChar(Head(s)) \o str_encode(Tail(s))

\* bytes.decode(): strict UTF-8.  A lead byte 0xC2..0xDF needs one
\* continuation byte 0x80..0xBF; a lone continuation byte, 0xC0, 0xC1 and
\* 0xF5..0xFF are never valid.  Lead bytes 0xE0..0xF4 (three- and four-byte
\* forms) are outside the modelled alphabet and are not drawn as inputs.
RECURSIVE bytes_decode(_)
bytes_decode(b) ==
    IF b = <<>> THEN Ok(<<>>)
    ELSE IF b[1] < 128 THEN
        LET rest == bytes_decode(Tail(b))
        IN IF rest.ok THEN Ok(<<b[1]>> \o rest.val) ELSE rest
    ELSE IF b[1] >= 194 /\ b[1] <= 223 /\ Len(b) >= 2 /\ b[2] >= 128 /\ b[2] <= 191 THEN
        LET rest == bytes_decode(Tail(Tail(b)))
        IN IF rest.ok THEN Ok(<<(b[1] - 192) * 64 + (b[2] - 128)>> \o rest.val) ELSE rest
    ELSE Raise(UnicodeDecodeError)

\* -------------------------------------------------------- bytes.fromhex
HexDigits == <<"0", "1", "2", "3", "4", "5", "6", "7", "8", "9", "a", "b", "c", "d", "e", "f">>
IsHex(ch) == \E i \in 1..16 : HexDigits[i] = ch
HexVal(ch) == (CHOOSE i \in 1..16 : HexDigits[i] = ch) - 1

\* A str of hex digit pairs; an odd digit or a non-hex character raises.
RECURSIVE bytes_fromhex(_)
bytes_fromhex(h) ==
    IF h = <<>> THEN Ok(<<>>)
    ELSE IF Len(h) < 2 \/ ~IsHex(h[1]) \/ ~IsHex(h[2]) THEN Raise(FromHexError)
    ELSE LET rest == bytes_fromhex(Tail(Tail(h)))
         IN IF rest.ok THEN Ok(<<16 * HexVal(h[1]) + HexVal(h[2])>> \o rest.val) ELSE rest

\* ------------------------------------- Payload.SerializeToString/FromString
\* protobuf wire format of temporal.api.common.v1.Payload:
\*   map<string, bytes> metadata = 1;  bytes data = 2;
RECURSIVE Varint(_)
Varint(n) == IF n < 128 THEN <<n>> ELSE <<128 + (n % 128)>> \o Varint(n \div 128)

LenDelim(field, b) == <<field * 8 + 2>> \o Varint(Len(b)) \o b

MapEntry(k, v) == LenDelim(1, str_encode(k)) \o LenDelim(2, v)

Restrict(f, S) == [x \in S |-> f[x]]

RECURSIVE SerializeMap(_)
SerializeMap(m) ==
    IF DOMAIN m = {} THEN <<>>
    ELSE LET k == CHOOSE x \in DOMAIN m : TRUE
         IN LenDelim(1, MapEntry(k, m[k])) \o SerializeMap(Restrict(m, DOMAIN m \ {k}))

SerializeToString(p) ==
    SerializeMap(p.metadata) \o (IF p.data = <<>> THEN <<>> ELSE LenDelim(2, p.data))

\* [ok, val, next]: the varint starting at b[i] and the index after it.
RECURSIVE ReadVarint(_, _)
ReadVarint(b, i) ==
    IF i > Len(b) THEN [ok |-> FALSE, val |-> 0, next |-> i]
    ELSE IF b[i] < 128 THEN [ok |-> TRUE, val |-> b[i], next |-> i + 1]
    ELSE LET r == ReadVarint(b, i + 1)
         IN [ok |-> r.ok, val |-> (b[i] - 128) + 128 * r.val, next |-> r.next]

\* [ok, field, val, next]: the length-delimited field starting at b[i].
ReadField(b, i) ==
    LET n == ReadVarint(b, i + 1)
    IN IF b[i] % 8 # 2 \/ ~n.ok \/ n.next + n.val - 1 > Len(b)
       THEN [ok |-> FALSE, field |-> 0, val |-> <<>>, next |-> i]
       ELSE [ok |-> TRUE, field |-> b[i] \div 8,
             val |-> SubSeq(b, n.next, n.next + n.val - 1), next |-> n.next + n.val]

Put(m, k, v) == [x \in DOMAIN m \cup {k} |-> IF x = k THEN v ELSE m[x]]

\* A metadata entry: key = 1 (string), value = 2 (bytes), either may be absent.
RECURSIVE ParseEntry(_, _, _)
ParseEntry(b, i, acc) ==
    IF i > Len(b) THEN
        LET k == bytes_decode(acc.key)
        IN IF k.ok THEN Ok([key |-> k.val, value |-> acc.value]) ELSE Raise(DecodeError)
    ELSE LET f == ReadField(b, i)
         IN IF ~f.ok \/ f.field \notin {1, 2} THEN Raise(DecodeError)
            ELSE ParseEntry(b, f.next, IF f.field = 1 THEN [acc EXCEPT !.key = f.val]
                                                       ELSE [acc EXCEPT !.value = f.val])

RECURSIVE ParsePayload(_, _, _)
ParsePayload(b, i, acc) ==
    IF i > Len(b) THEN Ok(acc)
    ELSE LET f == ReadField(b, i)
         IN IF ~f.ok \/ f.field \notin {1, 2} THEN Raise(DecodeError)
            ELSE IF f.field = 2 THEN ParsePayload(b, f.next, [acc EXCEPT !.data = f.val])
            ELSE LET e == ParseEntry(f.val, 1, [key |-> <<>>, value |-> <<>>])
                 IN IF ~e.ok THEN e
                    ELSE ParsePayload(b, f.next,
                             [acc EXCEPT !.metadata = Put(acc.metadata, e.val.key, e.val.value)])

FromString(b) == ParsePayload(b, 1, [metadata |-> <<>>, data |-> <<>>])

\* --------------------------------------------------------------- AESGCM
\* The cryptography library's AESGCM, by its contract as an authenticated
\* cipher: a keyed stream over the plaintext and a 16-byte tag over key,
\* nonce and ciphertext that changes whenever one byte of them changes.
RECURSIVE KeyMixTo(_, _)
KeyMixTo(key, n) == IF n = 0 THEN 0 ELSE (n * key[n] + KeyMixTo(key, n - 1)) % 256
KeyMix(key) == KeyMixTo(key, Len(key))

\* the i-th byte of the key stream, from the mixes of the key and the nonce
Stream(km, nm, i) == (km + 3 * nm + 29 * i) % 256

GcmTag(km, nm, ct) ==
    LET cm == Sum(ct)
    IN [j \in 1..TAG_BYTES |-> (j * km + nm + cm + j) % 256]

\* AESGCM(key)
AESGCM(key) == IF Len(key) \in {16, 24, 32} THEN Ok(key) ELSE Raise(AesKeySizeError)

\* AESGCM(key).encrypt(nonce, data, None)
AESGCM_encrypt(key, nonce, data) ==
    LET km == KeyMix(key)
        nm == Sum(nonce)
        ct == [i \in 1..Len(data) |-> (data[i] + Stream(km, nm, i)) % 256]
    IN ct \o GcmTag(km, nm, ct)

\* AESGCM(key).decrypt(nonce, data, None)
AESGCM_decrypt(key, nonce, data) ==
    IF Len(nonce) < 8 \/ Len(nonce) > 128 THEN Raise(NonceSizeError)
    ELSE IF Len(data) < TAG_BYTES THEN Raise(InvalidTag)
    ELSE LET km == KeyMix(key)
             nm == Sum(nonce)
             ct == Take(data, Len(data) - TAG_BYTES)
             tag == Drop(data, Len(data) - TAG_BYTES)
         IN IF tag # GcmTag(km, nm, ct) THEN Raise(InvalidTag)
            ELSE Ok([i \in 1..Len(ct) |-> (ct[i] + 256 - Stream(km, nm, i)) % 256])

\* ------------------------------------------------------ EncryptionCodec
\* dict.get(key, default)
Get(m, k, default) == IF k \in DOMAIN m THEN m[k] ELSE default

\* __init__ without its own length check, AESGCM's being the only one
EncryptionCodec_unchecked(key_id, key) ==
    LET a == AESGCM(key)
    IN IF ~a.ok THEN a ELSE Ok([key_id |-> key_id, encryptor |-> a.val])

\* EncryptionCodec.__init__(self, key_id, key): the instance, or the
\* exception raised.  self._encryptor = AESGCM(key) holds the key.
EncryptionCodec(key_id, key) ==
    IF Len(key) # KEY_BYTES THEN Raise(KeyLengthError)
    ELSE LET a == AESGCM(key)
         IN IF ~a.ok THEN a ELSE Ok([key_id |-> key_id, encryptor |-> a.val])

\* os.urandom(n): any n bytes.  The outcomes drawn here are n-byte strings
\* of one byte of RandomBytes repeated.
RandomBytes == {17, 200}
urandom(n) == {[i \in 1..n |-> a] : a \in RandomBytes}

\* _encrypt with a constant nonce instead of the draw
_encrypt_fixed(self, data, nonce) ==
    Bytes(NONCE_BYTES, 0) \o AESGCM_encrypt(self.encryptor, Bytes(NONCE_BYTES, 0), data)

\* EncryptionCodec._encrypt(self, data), nonce being what os.urandom(12) returns
_encrypt(self, data, nonce) == nonce \o AESGCM_encrypt(self.encryptor, nonce, data)

\* EncryptionCodec._decrypt(self, data)
_decrypt(self, data) ==
    AESGCM_decrypt(self.encryptor, Take(data, NONCE_BYTES), Drop(data, NONCE_BYTES))

\* the envelope's metadata without the key id
EnvelopeMetadata_unlabelled(self) == [k \in {ENCODING} |-> BINARY_ENCRYPTED]

\* the metadata of every envelope encode returns
EnvelopeMetadata(self) ==
    [k \in {ENCODING, ENCRYPTION_KEY_ID} |->
        IF k = ENCODING THEN BINARY_ENCRYPTED ELSE str_encode(self.key_id)]

\* encode encrypting p.data alone instead of the serialized payload
encode_data_only(self, payloads, nonces) ==
    [i \in 1..Len(payloads) |->
        [metadata |-> EnvelopeMetadata(self),
         data |-> _encrypt(self, payloads[i].data, nonces[i])]]

\* EncryptionCodec.encode(self, payloads): nonces[i] is the draw of the
\* i-th _encrypt call.
encode(self, payloads, nonces) ==
    [i \in 1..Len(payloads) |->
        [metadata |-> EnvelopeMetadata(self),
         data |-> _encrypt(self, SerializeToString(payloads[i]), nonces[i])]]

\* The body of decode's for loop on the payload p: what is appended to the
\* result, or the exception raised; tried says whether p.data was handed to
\* self._decrypt.
decode_one(self, p) ==
    LET encoding == bytes_decode(Get(p.metadata, ENCODING, <<>>))
        key_id == bytes_decode(Get(p.metadata, ENCRYPTION_KEY_ID, <<>>))
        plain == _decrypt(self, p.data)
        parsed == FromString(plain.val)
    IN  IF ~encoding.ok THEN [ok |-> FALSE, exc |-> encoding.exc, tried |-> FALSE]
        ELSE IF encoding.val # BINARY_ENCRYPTED THEN [ok |-> TRUE, val |-> p, tried |-> FALSE]
        ELSE IF ~key_id.ok THEN [ok |-> FALSE, exc |-> key_id.exc, tried |-> FALSE]
        ELSE IF key_id.val # self.key_id
            THEN [ok |-> FALSE, exc |-> UnknownKeyId(key_id.val, self.key_id), tried |-> FALSE]
        ELSE IF ~plain.ok THEN [ok |-> FALSE, exc |-> plain.exc, tried |-> TRUE]
        ELSE IF ~parsed.ok THEN [ok |-> FALSE, exc |-> parsed.exc, tried |-> TRUE]
        ELSE [ok |-> TRUE, val |-> parsed.val, tried |-> TRUE]

Tried(tried, i, r) == IF r.tried THEN Append(tried, i) ELSE tried

\* decode_loop with a failing envelope handed back as it came instead of raising
RECURSIVE decode_loop_fallback(_, _, _, _, _)
decode_loop_fallback(self, payloads, i, result, tried) ==
    IF i > Len(payloads) THEN [ok |-> TRUE, val |-> result, tried |-> tried]
    ELSE LET r == decode_one(self, payloads[i])
         IN decode_loop_fallback(self, payloads, i + 1,
                Append(result, IF r.ok THEN r.val ELSE payloads[i]), Tried(tried, i, r))

\* decode_loop returning what it has decoded so far instead of raising
RECURSIVE decode_loop_partial(_, _, _, _, _)
decode_loop_partial(self, payloads, i, result, tried) ==
    IF i > Len(payloads) THEN [ok |-> TRUE, val |-> result, tried |-> tried]
    ELSE LET r == decode_one(self, payloads[i])
         IN IF ~r.ok THEN [ok |-> TRUE, val |-> result, tried |-> Tried(tried, i, r)]
            ELSE decode_loop_partial(self, payloads, i + 1, Append(result, r.val), Tried(tried, i, r))

\* decode_loop putting each payload in front of the result
RECURSIVE decode_loop_reversed(_, _, _, _, _)
decode_loop_reversed(self, payloads, i, result, tried) ==
    IF i > Len(payloads) THEN [ok |-> TRUE, val |-> result, tried |-> tried]
    ELSE LET r == decode_one(self, payloads[i])
         IN IF ~r.ok THEN [ok |-> FALSE, exc |-> r.exc, tried |-> Tried(tried, i, r)]
            ELSE decode_loop_reversed(self, payloads, i + 1, <<r.val>> \o result, Tried(tried, i, r))

\* EncryptionCodec.decode(self, payloads), the for loop from index i on with
\* the result list so far: a payload is appended, or the exception leaves the
\* call and the list is lost.  tried lists the indices whose data was handed
\* to self._decrypt.
RECURSIVE decode_loop(_, _, _, _, _)
decode_loop(self, payloads, i, result, tried) ==
    IF i > Len(payloads) THEN [ok |-> TRUE, val |-> result, tried |-> tried]
    ELSE LET r == decode_one(self, payloads[i])
         IN IF ~r.ok THEN [ok |-> FALSE, exc |-> r.exc, tried |-> Tried(tried, i, r)]
            ELSE decode_loop(self, payloads, i + 1, Append(result, r.val), Tried(tried, i, r))

decode(self, payloads) == decode_loop(self, payloads, 1, <<>>, <<>>)

\* load_encryption_codec(): environ is os.environ, a function from the
\* names of the variables that are set to their values.
load_encryption_codec(environ) ==
    LET key_hex == environ["TEMPORAL_ENCRYPTION_KEY"]
        key == bytes_fromhex(key_hex)
        key_id == Get(environ, "TEMPORAL_ENCRYPTION_KEY_ID", DEFAULT_KEY)
    IN  IF "TEMPORAL_ENCRYPTION_KEY" \notin DOMAIN environ \/ key_hex = <<>> THEN Raise(KeyNotSet)
        ELSE IF ~key.ok THEN key
        ELSE EncryptionCodec(key_id, key.val)

\* --------------------------------------------------------------- inputs
\* 'k' 'e-acute': a key identifier outside ASCII
KEY_ID_2 == <<107, 233>>
\* b'json/plain', b'ping'
JSON_PLAIN == <<106, 115, 111, 110, 47, 112, 108, 97, 105, 110>>
PING == <<112, 105, 110, 103>>

KeyIds == {DEFAULT_KEY, KEY_ID_2}
\* key material handed to the constructor: 32 zero bytes and wrong sizes,
\* among them the sizes AESGCM itself would take
KeyLengths == {0, 16, 24, 31, 32, 33}
Keys == {Bytes(n, 0) : n \in KeyLengths}

Hex(n, hi, lo) == [i \in 1..n |-> IF i % 2 = 1 THEN hi ELSE lo]
EnvKey(key) == [x \in {"TEMPORAL_ENCRYPTION_KEY"} |-> key]
EnvKeyId(key, key_id) ==
    [x \in {"TEMPORAL_ENCRYPTION_KEY", "TEMPORAL_ENCRYPTION_KEY_ID"} |->
        IF x = "TEMPORAL_ENCRYPTION_KEY" THEN key ELSE key_id]
\* os.environ of a process: the key unset, empty, malformed, of a wrong
\* size, or 64 hex digits (32 bytes of 0x00 or of 0x01)
Environs ==
    { <<>>, EnvKey(<<>>), EnvKey(Hex(63, "0", "0")), EnvKey(Hex(64, "0", "z")),
      EnvKey(Hex(62, "0", "0")), EnvKey(Hex(66, "0", "0")), EnvKey(Hex(64, "0", "0")),
      EnvKeyId(Hex(64, "0", "0"), KEY_ID_2), EnvKey(Hex(64, "0", "1")) }

Meta1(k, v) == [x \in {k} |-> v]
Meta2(k1, v1, k2, v2) == [x \in {k1, k2} |-> IF x = k1 THEN v1 ELSE v2]

\* Payloads the application hands to encode: an ordinary one, an empty one,
\* and one that itself carries the marker and a key id.
P_ping == [metadata |-> Meta1(ENCODING, JSON_PLAIN), data |-> PING]
P_empty == [metadata |-> <<>>, data |-> <<>>]
P_marked == [metadata |-> Meta2(ENCODING, BINARY_ENCRYPTED, ENCRYPTION_KEY_ID, str_encode(DEFAULT_KEY)),
             data |-> <<1, 2, 3>>]
Payloads == {P_ping, P_empty, P_marked}

\* Foreign traffic on the transport: another marker, no marker, marker bytes
\* that are not UTF-8, a plain payload with an odd key id, and marked
\* envelopes with no key id and with a key id that is not UTF-8.
F_plain == P_ping
F_nometa == [metadata |-> <<>>, data |-> PING]
F_bytes == [metadata |-> Meta1(ENCODING, <<255>>), data |-> PING]
F_plainkid == [metadata |-> Meta2(ENCODING, JSON_PLAIN, ENCRYPTION_KEY_ID, <<255>>), data |-> PING]
F_nokid == [metadata |-> Meta1(ENCODING, BINARY_ENCRYPTED), data |-> Bytes(28, 0)]
F_badkid == [metadata |-> Meta2(ENCODING, BINARY_ENCRYPTED, ENCRYPTION_KEY_ID, <<255>>), data |-> Bytes(28, 0)]
Foreign == {F_plain, F_nometa, F_bytes, F_plainkid, F_nokid, F_badkid}

Seqs(S, n) == UNION {[1..k -> S] : k \in 0..n}

\* ---------------------------------------------------------------- state
Procs == {"starter", "worker"}

VARIABLES
    codec,  \* codec[p]: the EncryptionCodec of process p, None before it is built
    wire,   \* the envelopes handed to the engine, in the order they were encoded
    call,   \* the call being awaited: its arguments and what it returns or raises
    seen    \* a decode call the engine's history remembers, for replay

vars == <<codec, wire, call, seen>>

Idle == [op |-> "idle"]

Init ==
    /\ codec = [p \in Procs |-> None]
    /\ wire = <<>>
    /\ call = Idle
    /\ seen = None

\* EncryptionCodec(key_id=key_id, key=key) in process p
Construct(p, key_id, key) ==
    LET r == EncryptionCodec(key_id, key)
    IN  /\ call = Idle
        /\ codec[p] = None
        /\ codec' = IF r.ok THEN [codec EXCEPT ![p] = r.val] ELSE codec
        /\ call' = [op |-> "__init__", proc |-> p, key_id |-> key_id, key |-> key, outcome |-> r]
        /\ UNCHANGED <<wire, seen>>

\* encryption_codec = load_encryption_codec() at the start of process p
Load(p, environ) ==
    LET r == load_encryption_codec(environ)
    IN  /\ call = Idle
        /\ codec[p] = None
        /\ codec' = IF r.ok THEN [codec EXCEPT ![p] = r.val] ELSE codec
        /\ call' = [op |-> "load", proc |-> p, environ |-> environ, outcome |-> r]
        /\ UNCHANGED <<wire, seen>>

\* await codec.encode(payloads) in process p; the engine stores what it
\* returns, and the wire notes beside each envelope the codec, the payload and
\* the os.urandom draw it came from
Encode(p, payloads, nonces) ==
    LET out == encode(codec[p], payloads, nonces)
    IN  /\ call = Idle
        /\ codec[p] # None
        /\ Len(nonces) = Len(payloads)
        /\ wire' = wire \o [i \in 1..Len(out) |->
                        [self |-> codec[p], payload |-> payloads[i], nonce |-> nonces[i], env |-> out[i]]]
        /\ call' = [op |-> "encode", proc |-> p, self |-> codec[p], payloads |-> payloads,
                    nonces |-> nonces, out |-> out]
        /\ UNCHANGED <<codec, seen>>

\* Decode with the codec taking on the key id of the first envelope
Decode_adopting(p, payloads, remember) ==
    LET r == decode(codec[p], payloads)
        rec == [op |-> "decode", proc |-> p, self |-> codec[p], payloads |-> payloads,
                outcome |-> r, stored |-> Len(wire)]
        found == bytes_decode(Get(payloads[1].metadata, ENCRYPTION_KEY_ID, <<>>))
    IN  /\ call = Idle
        /\ codec[p] # None
        /\ call' = rec
        /\ seen' = IF remember THEN rec ELSE seen
        /\ codec' = IF Len(payloads) >= 1 /\ found.ok
                     THEN [codec EXCEPT ![p].key_id = found.val] ELSE codec
        /\ UNCHANGED wire

\* await codec.decode(payloads) in process p; remember says whether the
\* engine's history keeps the call for a later replay; stored notes how many
\* envelopes were on the wire at the time
Decode(p, payloads, remember) ==
    LET r == decode(codec[p], payloads)
        rec == [op |-> "decode", proc |-> p, self |-> codec[p], payloads |-> payloads,
                outcome |-> r, stored |-> Len(wire)]
    IN  /\ call = Idle
        /\ codec[p] # None
        /\ call' = rec
        /\ seen' = IF remember THEN rec ELSE seen
        /\ UNCHANGED <<codec, wire>>

\* The awaited call returns (or raises) to its caller.
Return ==
    /\ call # Idle
    /\ call' = Idle
    /\ UNCHANGED <<codec, wire, seen>>

\* The envelopes on the wire
Stored == {wire[i].env : i \in 1..Len(wire)}

Next ==
    \/ \E p \in Procs, key_id \in KeyIds, key \in Keys : Construct(p, key_id, key)
    \/ \E p \in Procs, environ \in Environs : Load(p, environ)
    \/ \E p \in Procs, payloads \in Seqs(Payloads, MaxBatch) :
          /\ Len(wire) + Len(payloads) <= MaxWire
          /\ \E nonces \in [1..Len(payloads) -> urandom(NONCE_BYTES)] : Encode(p, payloads, nonces)
    \/ \E p \in Procs, payloads \in Seqs(Stored \cup Foreign, MaxBatch) : Decode(p, payloads, FALSE)
    \/ Return

Spec == Init /\ [][Next]_vars

\* ------------------------------------------------- tampering in storage
\* envelope e with bit k of data byte pos inverted
Flip(e, pos, k) == [e EXCEPT !.data[pos] = FlipBit(e.data[pos], k)]

\* The storage flips any one bit of a stored envelope before it is decoded.
NextTamper ==
    \/ \E p \in Procs, environ \in Environs : Load(p, environ)
    \/ \E p \in Procs, payload \in Payloads, nonce \in urandom(NONCE_BYTES) :
          /\ wire = <<>>
          /\ Encode(p, <<payload>>, <<nonce>>)
    \/ \E p \in Procs, i \in 1..Len(wire) :
          \E pos \in 1..Len(wire[i].env.data), k \in 0..7 :
              Decode(p, <<Flip(wire[i].env, pos, k)>>, FALSE)
    \/ Return

SpecTamper == Init /\ [][NextTamper]_vars

\* ------------------------------------------------------ replay by the engine
\* The engine remembers a decode call and makes it again later, other calls
\* on the same codecs coming in between.
ReplayForeign == {F_plain}

NextReplay ==
    \/ \E p \in Procs, environ \in Environs : Load(p, environ)
    \/ \E p \in Procs, nonce \in urandom(NONCE_BYTES) :
          /\ Len(wire) < MaxWire
          /\ Encode(p, <<P_ping>>, <<nonce>>)
    \/ \E p \in Procs, payloads \in Seqs(Stored \cup ReplayForeign, MaxBatch), remember \in BOOLEAN :
          Decode(p, payloads, remember)
    \/ Return

SpecReplay == Init /\ [][NextReplay]_vars

\* ================================================================ claims
\* the envelope's marker is exactly b'binary/encrypted'
Marked(e) == ENCODING \in DOMAIN e.metadata /\ e.metadata[ENCODING] = BINARY_ENCRYPTED

\* the envelope's key id is exactly the bytes of key_id
KeyIdIs(e, key_id) ==
    ENCRYPTION_KEY_ID \in DOMAIN e.metadata /\ e.metadata[ENCRYPTION_KEY_ID] = str_encode(key_id)

\* the wire entries whose envelope is e and that the codec self encoded
Own(self, e) == {k \in 1..Len(wire) : wire[k].env = e /\ wire[k].self = self}

InSeq(x, s) == \E k \in 1..Len(s) : s[k] = x

\* t is e with one bit of its data inverted at byte pos
FlippedAt(e, t, pos) ==
    /\ t.metadata = e.metadata
    /\ Len(t.data) = Len(e.data)
    /\ pos \in 1..Len(e.data)
    /\ \E k \in 0..7 : t.data[pos] = FlipBit(e.data[pos], k)
    /\ \A q \in 1..Len(e.data) : q # pos => t.data[q] = e.data[q]

\* C1 (round-trip identity): a decode call whose inputs are all envelopes that
\* the same codec (same key, same key id) encoded, taken from the wire
\* unaltered, returns exactly the payloads that were encoded, one per
\* position, whatever nonces were drawn.
C1_RoundTrip ==
    (call.op = "decode" /\ \A i \in 1..Len(call.payloads) : Own(call.self, call.payloads[i]) # {})
    => /\ call.outcome.ok
       /\ Len(call.outcome.val) = Len(call.payloads)
       /\ \A i \in 1..Len(call.payloads) : \A k \in Own(call.self, call.payloads[i]) :
             call.outcome.val[i] = wire[k].payload

\* a payload that itself carries the marker went through encode and decode
C1_Witness ==
    /\ call.op = "decode"
    /\ Len(call.payloads) >= 1
    /\ \A i \in 1..Len(call.payloads) : Own(call.self, call.payloads[i]) # {}
    /\ call.outcome.ok
    /\ call.outcome.val[1] = P_marked

\* C2 (tamper detection): decode of one envelope that differs in exactly one
\* bit of its data (nonce, ciphertext or tag) from an envelope the same codec
\* encoded raises InvalidTag and returns nothing.
C2_TamperDetected ==
    (call.op = "decode" /\ Len(call.payloads) = 1)
    => \A k \in 1..Len(wire) :
          (wire[k].self = call.self
           /\ \E pos \in 1..Len(wire[k].env.data) : FlippedAt(wire[k].env, call.payloads[1], pos))
          => /\ ~call.outcome.ok
             /\ call.outcome.exc = InvalidTag
             /\ DOMAIN call.outcome = {"ok", "exc", "tried"}

\* a bit of the ciphertext (between the nonce and the tag) was flipped
C2_Witness ==
    /\ call.op = "decode"
    /\ Len(call.payloads) = 1
    /\ \E k \in 1..Len(wire) :
          /\ wire[k].self = call.self
          /\ \E pos \in (NONCE_BYTES + 1)..(Len(wire[k].env.data) - TAG_BYTES) :
                FlippedAt(wire[k].env, call.payloads[1], pos)
    /\ ~call.outcome.ok

\* C3 (key mismatch rejection): when decode reaches an envelope that carries
\* the marker and whose key id (any bytes, or none) is not the codec's, the
\* call raises the unknown-key error naming the found and the expected
\* identifier, and the envelope's data is not handed to _decrypt.
C3_KeyMismatch ==
    call.op = "decode"
    => \A i \in 1..Len(call.payloads) :
          (/\ \A j \in 1..(i - 1) : decode_one(call.self, call.payloads[j]).ok
           /\ Marked(call.payloads[i])
           /\ ~KeyIdIs(call.payloads[i], call.self.key_id))
          => /\ ~call.outcome.ok
             /\ call.outcome.exc.type = "ValueError"
             /\ call.outcome.exc.msg = "Unknown key ID"
             /\ call.outcome.exc.expected = call.self.key_id
             /\ str_encode(call.outcome.exc.found) = Get(call.payloads[i].metadata, ENCRYPTION_KEY_ID, <<>>)
             /\ ~InSeq(i, call.outcome.tried)

\* C4 (pass-through): an envelope whose marker is anything but
\* b'binary/encrypted' (other bytes, or none) comes back unchanged at its
\* position, without its data being decrypted, when no other envelope of the
\* batch fails.
C4_PassThrough ==
    call.op = "decode"
    => \A i \in 1..Len(call.payloads) :
          (/\ ~Marked(call.payloads[i])
           /\ \A j \in 1..Len(call.payloads) : j # i => decode_one(call.self, call.payloads[j]).ok)
          => /\ call.outcome.ok
             /\ call.outcome.val[i] = call.payloads[i]
             /\ ~InSeq(i, call.outcome.tried)

\* the positions of the call's batch whose envelope the loop body rejects
Failing == {i \in 1..Len(call.payloads) : ~decode_one(call.self, call.payloads[i]).ok}
First(S) == CHOOSE i \in S : \A j \in S : i <= j

\* C5 (no partial results): if any envelope of the batch fails on its own,
\* wherever it stands, the decode call raises the error of the first such
\* envelope and returns no payload at all.
C5_NoPartial ==
    (call.op = "decode" /\ Failing # {})
    => /\ ~call.outcome.ok
       /\ "val" \notin DOMAIN call.outcome
       /\ call.outcome.exc = decode_one(call.self, call.payloads[First(Failing)]).exc

\* an envelope that fails authentication follows one that decodes
C5_Witness ==
    /\ call.op = "decode"
    /\ Failing # {}
    /\ First(Failing) = 2
    /\ call.outcome.exc = InvalidTag

\* the key bytes a load call read from the environment, when they are hex
LoadedKey == bytes_fromhex(call.environ["TEMPORAL_ENCRYPTION_KEY"])

\* what constructing with key must have done in the call's process
Built(key) ==
    IF Len(key) = KEY_BYTES
    THEN /\ call.outcome.ok
         /\ call.outcome.val.encryptor = key
         /\ codec[call.proc] = call.outcome.val
    ELSE /\ call.outcome = Raise(KeyLengthError)
         /\ codec[call.proc] = None

\* C6 (key-length validation): constructing with key material that is not
\* exactly 32 bytes raises the key-length ValueError and leaves the process
\* without a codec; with 32 bytes it yields a codec holding exactly those
\* bytes; no codec ever holds a key of another size.
C6_KeyLength ==
    /\ \A p \in Procs : codec[p] # None => Len(codec[p].encryptor) = KEY_BYTES
    /\ call.op = "__init__" => Built(call.key)
    /\ (call.op = "load" /\ "TEMPORAL_ENCRYPTION_KEY" \in DOMAIN call.environ
            /\ call.environ["TEMPORAL_ENCRYPTION_KEY"] # <<>> /\ LoadedKey.ok)
       => Built(LoadedKey.val)

\* a 31-byte key was refused
C6_Witness ==
    /\ call.op = "__init__"
    /\ Len(call.key) = 31
    /\ ~call.outcome.ok
    /\ codec[call.proc] = None

\* C7 (order preservation): encode returns one envelope per payload and
\* decode, when it returns, one payload per envelope; output i is what the
\* call on input i alone gives, whatever the other inputs are.
C7_Order ==
    /\ call.op = "encode"
       => /\ Len(call.out) = Len(call.payloads)
          /\ \A i \in 1..Len(call.payloads) :
                /\ call.out[i] = encode(call.self, <<call.payloads[i]>>, <<call.nonces[i]>>)[1]
                /\ decode_one(call.self, call.out[i]).ok
                /\ decode_one(call.self, call.out[i]).val = call.payloads[i]
    /\ (call.op = "decode" /\ call.outcome.ok)
       => /\ Len(call.outcome.val) = Len(call.payloads)
          /\ \A i \in 1..Len(call.payloads) :
                /\ decode_one(call.self, call.payloads[i]).ok
                /\ decode_one(call.self, call.payloads[i]).val = call.outcome.val[i]

\* a pass-through envelope and an encrypted one were decoded in one batch,
\* the encrypted one second, giving two different payloads
C7_Witness ==
    /\ call.op = "decode"
    /\ call.outcome.ok
    /\ Len(call.payloads) = 2
    /\ call.outcome.tried = <<2>>
    /\ call.outcome.val[1] # call.outcome.val[2]

\* C8 (envelope wire shape): every envelope encode returns has exactly the
\* metadata encoding = b'binary/encrypted' and encryption-key-id = the codec's
\* key id, and data = the 12-byte nonce, then ciphertext and 16-byte tag of
\* the serialized payload; it is never the payload itself.
C8_WireShape ==
    call.op = "encode"
    => \A i \in 1..Len(call.out) :
          LET e == call.out[i]
              plain == SerializeToString(call.payloads[i])
          IN  /\ DOMAIN e.metadata = {ENCODING, ENCRYPTION_KEY_ID}
              /\ e.metadata[ENCODING] = BINARY_ENCRYPTED
              /\ bytes_decode(e.metadata[ENCRYPTION_KEY_ID]) = Ok(call.self.key_id)
              /\ Len(e.data) = NONCE_BYTES + Len(plain) + TAG_BYTES
              /\ Take(e.data, NONCE_BYTES) = call.nonces[i]
              /\ AESGCM_decrypt(call.self.encryptor, call.nonces[i], Drop(e.data, NONCE_BYTES)) = Ok(plain)
              /\ e # call.payloads[i]

\* a payload with metadata of its own was encoded under the non-ASCII key id
C8_Witness ==
    /\ call.op = "encode"
    /\ Len(call.out) = 2
    /\ call.payloads[2] = P_marked
    /\ call.self.key_id = KEY_ID_2

SameKey(i, j) == wire[i].self.encryptor = wire[j].self.encryptor
NoncePrefix(i) == Take(wire[i].env.data, NONCE_BYTES)

\* C9 as stated (nonce uniqueness): no two envelopes encoded under one key
\* share their 12-byte nonce prefix.
C9_NonceUnique ==
    \A i, j \in 1..Len(wire) : (i < j /\ SameKey(i, j)) => NoncePrefix(i) # NoncePrefix(j)

\* C9 as amended: every envelope's nonce prefix is the 12 bytes os.urandom
\* returned for that payload, so two envelopes under one key share a prefix
\* only if the random source returned the same bytes for both.
C9_NonceIsDraw ==
    /\ \A i \in 1..Len(wire) : Len(wire[i].nonce) = NONCE_BYTES /\ NoncePrefix(i) = wire[i].nonce
    /\ \A i, j \in 1..Len(wire) :
          (SameKey(i, j) /\ wire[i].nonce # wire[j].nonce) => NoncePrefix(i) # NoncePrefix(j)

\* two envelopes under one key, from different draws
C9_Witness ==
    /\ Len(wire) = 2
    /\ SameKey(1, 2)
    /\ wire[1].nonce # wire[2].nonce

\* a decode call repeats the remembered one: same codec, same envelopes
Replayed ==
    /\ call.op = "decode"
    /\ seen # None
    /\ seen.proc = call.proc
    /\ seen.payloads = call.payloads

\* no step changes a codec that exists
CodecKept == \A p \in Procs : codec[p] # None => codec'[p] = codec[p]

====
